---- MODULE Spec2Model ----
(***************************************************************************)
(* Model of the libatk-rs command codec (src/src/command.rs, types.rs)     *)
(* and of its transport adapter (src/src/device.rs).                       *)
(* A byte is an integer in 0..255.  A Rust Vec<u8> is a TLA+ sequence:     *)
(* Rust index i is TLA+ index i + 1.                                       *)
(***************************************************************************)
EXTENDS Integers, Sequences, FiniteSets, TLC

VARIABLES
    report_id,        \* REPORT_ID, the descriptor's report id (command.rs:1, :239)
    overflow_checks,  \* the build panics on integer overflow (else it wraps)
    cmd,              \* the Command the caller holds
    origin,           \* "default" (Command::default) or "parsed" (try_from)
    clean,            \* every call so far was a mutator that returned Ok
    prev,             \* the Command before the last call
    last,             \* the last call: operation, arguments, result
    frame,            \* the bytes returned by the last as_bytes
    nops,             \* number of calls made
    pc,               \* where the running execute stands: "idle", "sent", "read"
    entry,            \* the execute entered: "Device" or "Command"
    wire,             \* transport and parse calls of the last execute, in order
    resp,             \* the bytes Device::read returned
    cause             \* the parse error an execute error wraps, "" if none

devVars == <<pc, entry, wire, resp, cause>>

vars ==
    <<report_id, overflow_checks, cmd, origin, clean, prev, last, frame, nops,
      pc, entry, wire, resp, cause>>

\* ---------------------------------------------------------------- bounds
\* Number of codec calls made in one behaviour.
MaxOps == 3

\* ------------------------------------------------------ program constants
BASE_OFFSET == 5
CMD_LEN == 16
MAX_REPORT_LENGTH == 64

\* CommandId discriminants 0x00..0x1b (types.rs, TryFrom<u8>).
CommandIds == 0..27

\* EEPROMAddress discriminants (types.rs, enum and TryFrom<u16> agree).
EEPROMAddresses ==
    { 0, 1, 2, 3, 4, 5, 10, 11, 12, 20, 28, 36, 44, 52, 60, 68,
      76, 77, 78, 79, 80, 81, 82, 83, 84, 85, 86, 87, 88, 89, 90, 91,
      92, 93, 94, 95, 96, 100, 104, 108, 112, 116, 120, 124, 128, 132,
      136, 140, 144, 148, 152, 156, 169, 170, 171, 172, 173, 174, 175,
      176, 177, 178, 179, 180, 181, 182, 183, 184, 185, 186, 187, 188,
      256, 288, 320, 352, 384, 416, 448, 480, 512, 544, 576, 608, 640,
      672, 704, 736, 768, 1152, 1536, 1920, 2304, 2688, 3072, 3456,
      3840, 4224, 4608, 4992, 5376, 5760, 6144, 6528 }

\* ------------------------------------------------------------ input sets
\* The report id comes from the descriptor; the codec only adds it in.
ReportIds == {8, 255}
\* Byte values written by the data mutators: below and above 0x55, and the
\* largest.
Values == {1, 86, 255}
\* Offsets handed to the data mutators: even, odd, and the last of a
\* payload of CMD_LEN - BASE_OFFSET bytes.
Offsets == {0, 1, 10}
\* Lengths handed to set_data_len: around zero and around the capacity.
Lens == {0, 1, 2, 10, 11, 12}
\* Slices and offsets handed to set_data.
Slices == { <<170>>, <<170, 187>> }
SliceOffsets == {0, 1}
SetIds == {1, 27}
SetStatuses == {255}
SetAddrs == {12, 6528}

\* ------------------------------------------------------- byte arithmetic
\* u8::wrapping_sub
wrapping_sub(a, b) == IF a >= b THEN a - b ELSE a + 256 - b

\* one `+=` on a u16 accumulator: the wrapped value and whether it wrapped
add16(acc, x) ==
    [v |-> (acc.v + x) % 65536, ov |-> acc.ov \/ (acc.v + x > 65535)]

RECURSIVE fold16(_, _)
fold16(acc, s) ==
    IF s = <<>> THEN acc ELSE fold16(add16(acc, Head(s)), Tail(s))

\* ---------------------------------------------------------- the Command
DefaultCommand ==
    [command_id |-> 0, status |-> 0, eeprom_address |-> 0, data_len |-> 0,
     data |-> [i \in 1..(CMD_LEN - BASE_OFFSET - 1) |-> 0], checksum |-> 0]

Ok(c) == [res |-> "ok", cmd |-> c]
Err(e, c) == [res |-> e, cmd |-> c]
Panic(c) == [res |-> "panic", cmd |-> c]

\* set_checksum with `sum += self.data_len as u16` left out.
set_checksum_no_len(c) ==
    LET dataSum == fold16([v |-> 0, ov |-> FALSE], c.data)
        total == fold16([v |-> report_id, ov |-> dataSum.ov],
                        <<c.command_id, c.status, c.eeprom_address,
                          dataSum.v>>)
    IN  IF total.ov /\ overflow_checks
        THEN Panic(c)
        ELSE Ok([c EXCEPT !.checksum = wrapping_sub(85, total.v % 256)])

\* Command::set_checksum.  Every addend is non-negative, so the 16-bit
\* accumulator overflows at some `+=` exactly when `ov` is set at the end.
\* With overflow checks the overflowing `+=` panics, without them it wraps.
set_checksum(c) ==
    LET dataSum == fold16([v |-> 0, ov |-> FALSE], c.data)
        total == fold16([v |-> report_id, ov |-> dataSum.ov],
                        <<c.command_id, c.status, c.eeprom_address,
                          c.data_len % 65536, dataSum.v>>)
    IN  IF total.ov /\ overflow_checks
        THEN Panic(c)
        ELSE Ok([c EXCEPT !.checksum = wrapping_sub(85, total.v % 256)])

\* Command::set_id / set_status / set_eeprom_address
set_id(c, id) == set_checksum([c EXCEPT !.command_id = id])
set_status(c, status) == set_checksum([c EXCEPT !.status = status])
set_eeprom_address(c, address) ==
    set_checksum([c EXCEPT !.eeprom_address = address])

\* Command::set_data_len
set_data_len(c, len) ==
    IF len > CMD_LEN - BASE_OFFSET
    THEN Err("DataTooLarge", c)
    ELSE set_checksum([c EXCEPT !.data_len = len])

\* Command::set_data.  The slice expression self.data[offset..offset+n]
\* panics, before anything is copied, when its end is past the buffer.
set_data(c, data, offset) ==
    IF offset + Len(data) > c.data_len
    THEN Err("InvalidDataLength", c)
    ELSE IF offset + Len(data) > Len(c.data)
    THEN Panic(c)
    ELSE set_checksum([c EXCEPT !.data =
            [i \in 1..Len(c.data) |->
                IF i > offset /\ i <= offset + Len(data)
                THEN data[i - offset] ELSE c.data[i]]])

\* Command::set_data_byte.  `self.data_len() - 1` is a usize subtraction:
\* with data_len = 0 it panics under overflow checks and otherwise wraps to
\* usize::MAX, which no offset exceeds, so the guard lets every offset pass.
\* self.data[offset] panics when offset is not an index of the buffer.
set_data_byte(c, value, offset) ==
    IF c.data_len = 0 /\ overflow_checks
    THEN Panic(c)
    ELSE IF c.data_len # 0 /\ offset > c.data_len - 1
    THEN Err("InvalidOffset", c)
    ELSE IF offset >= Len(c.data)
    THEN Panic(c)
    ELSE set_checksum([c EXCEPT !.data[offset + 1] = value])

\* Command::set_data_byte_with_checksum
set_data_byte_with_checksum(c, value, offset) ==
    IF offset % 2 # 0
    THEN Err("OffsetNotAligned", c)
    ELSE LET first == set_data_byte(c, value, offset)
         IN  IF first.res # "ok"
             THEN first
             ELSE set_data_byte(first.cmd, wrapping_sub(85, value), offset + 1)

\* Command::as_bytes.  `CMD_LEN - raw.len() - 1` is a usize subtraction:
\* when the buffer fills the frame it panics under overflow checks and
\* otherwise wraps to usize::MAX, and vec![0u8; usize::MAX] panics with a
\* capacity overflow.  Either way the call does not return.
as_bytes(c) ==
    LET raw == <<c.command_id, c.status, c.eeprom_address \div 256,
                 c.eeprom_address % 256, c.data_len % 256>> \o c.data
    IN  IF CMD_LEN - Len(raw) < 1
        THEN [res |-> "panic", bytes |-> <<>>]
        ELSE [res |-> "ok",
              bytes |-> raw \o [i \in 1..(CMD_LEN - Len(raw) - 1) |-> 0]
                            \o <<c.checksum>>]

\* TryFrom<u8> for CommandId
command_id_try_from(value) == value \in CommandIds
\* TryFrom<u16> for EEPROMAddress
eeprom_address_try_from(value) == value \in EEPROMAddresses

\* TryFrom<&[u8]> for Command.  raw[BASE_OFFSET..BASE_OFFSET + data_len]
\* panics when its end is past the 16 bytes of the buffer.
try_from(raw) ==
    IF Len(raw) # CMD_LEN
    THEN Err("InvalidBufferLength", DefaultCommand)
    ELSE IF ~command_id_try_from(raw[1])
    THEN Err("InvalidCommandId", DefaultCommand)
    ELSE IF ~eeprom_address_try_from(raw[3] * 256 + raw[4])
    THEN Err("InvalidEEPROMAddress", DefaultCommand)
    ELSE IF BASE_OFFSET + raw[5] > Len(raw)
    THEN Panic(DefaultCommand)
    ELSE Ok([command_id |-> raw[1], status |-> raw[2],
             eeprom_address |-> raw[3] * 256 + raw[4],
             data_len |-> raw[5],
             data |-> SubSeq(raw, BASE_OFFSET + 1, BASE_OFFSET + raw[5]),
             checksum |-> raw[16]])

\* ------------------------------------------------------ buffers to parse
MkRaw(id, addr, dl, fill, ck) ==
    <<id, 16, addr \div 256, addr % 256, dl>>
        \o [i \in 1..(CMD_LEN - BASE_OFFSET - 1) |-> fill] \o <<ck>>

RawInputs ==
    { <<>>,                                \* too short
      [i \in 1..(CMD_LEN + 1) |-> 0],      \* too long
      [i \in 1..(CMD_LEN - 1) |-> 255],    \* too short, bad id and address
      MkRaw(28, 6, 0, 0, 0),               \* bad id and bad address
      MkRaw(27, 6, 0, 0, 0),               \* address 0x6
      MkRaw(0, 189, 2, 170, 0),            \* address 0xbd
      MkRaw(8, 12, 0, 0, 119),             \* address 0xc, checksum not matching
      MkRaw(8, 6528, 2, 170, 0),
      MkRaw(8, 12, 11, 170, 119),          \* data up to the end of the frame
      MkRaw(8, 12, 12, 0, 0),              \* data_len past the frame
      MkRaw(28, 12, 255, 0, 0) }           \* bad id and data_len past the frame

\* ------------------------------------------------------------ the machine
NoCall == [op |-> "none", res |-> "ok", val |-> 0, off |-> 0,
           slice |-> <<>>, raw |-> <<>>]

Call(op, res, val, off) ==
    [op |-> op, res |-> res, val |-> val, off |-> off,
     slice |-> <<>>, raw |-> <<>>]

Init ==
    /\ report_id \in ReportIds
    /\ overflow_checks \in BOOLEAN
    /\ cmd = DefaultCommand
    /\ origin = "default"
    /\ clean = TRUE
    /\ prev = DefaultCommand
    /\ last = NoCall
    /\ frame = <<>>
    /\ nops = 0
    /\ pc = "idle"
    /\ entry = "Device"
    /\ wire = <<>>
    /\ resp = <<>>
    /\ cause = ""

CanCall == nops < MaxOps /\ last.res # "panic"

\* A mutator call on the current command.  `clean` records that the
\* command was built by mutator calls that all returned Ok.
Mutate(r, l) ==
    /\ CanCall
    /\ prev' = cmd
    /\ cmd' = r.cmd
    /\ clean' = (clean /\ r.res = "ok")
    /\ last' = l
    /\ nops' = nops + 1
    /\ UNCHANGED <<report_id, overflow_checks, origin, frame>>
    /\ UNCHANGED devVars

SetId ==
    \E id \in SetIds :
        LET r == set_id(cmd, id) IN Mutate(r, Call("set_id", r.res, id, 0))

SetStatus ==
    \E s \in SetStatuses :
        LET r == set_status(cmd, s)
        IN Mutate(r, Call("set_status", r.res, s, 0))

SetEepromAddress ==
    \E a \in SetAddrs :
        LET r == set_eeprom_address(cmd, a)
        IN Mutate(r, Call("set_eeprom_address", r.res, a, 0))

SetDataLen ==
    \E len \in Lens :
        LET r == set_data_len(cmd, len)
        IN Mutate(r, Call("set_data_len", r.res, len, 0))

SetData ==
    \E s \in Slices, off \in SliceOffsets :
        LET r == set_data(cmd, s, off)
        IN Mutate(r, [Call("set_data", r.res, 0, off) EXCEPT !.slice = s])

SetDataByte ==
    \E v \in Values, off \in Offsets :
        LET r == set_data_byte(cmd, v, off)
        IN Mutate(r, Call("set_data_byte", r.res, v, off))

SetDataByteWithChecksum ==
    \E v \in Values, off \in Offsets :
        LET r == set_data_byte_with_checksum(cmd, v, off)
        IN Mutate(r, Call("set_data_byte_with_checksum", r.res, v, off))

\* Serialize the current command.
AsBytes ==
    /\ CanCall
    /\ LET r == as_bytes(cmd)
       IN /\ frame' = r.bytes
          /\ last' = Call("as_bytes", r.res, 0, 0)
    /\ prev' = cmd
    /\ nops' = nops + 1
    /\ UNCHANGED <<report_id, overflow_checks, cmd, origin, clean>>
    /\ UNCHANGED devVars

\* Parse a buffer; on success the caller goes on with the parsed command.
TryFrom ==
    /\ CanCall
    /\ \E raw \in RawInputs \cup {frame} :
        LET r == try_from(raw)
        IN /\ last' = [Call("try_from", r.res, 0, 0) EXCEPT !.raw = raw]
           /\ cmd' = IF r.res = "ok" THEN r.cmd ELSE cmd
           /\ origin' = IF r.res = "ok" THEN "parsed" ELSE origin
           /\ clean' = IF r.res = "ok" THEN FALSE ELSE clean
    /\ prev' = cmd
    /\ nops' = nops + 1
    /\ UNCHANGED <<report_id, overflow_checks, frame>>
    /\ UNCHANGED devVars

Next ==
    \/ SetId
    \/ SetStatus
    \/ SetEepromAddress
    \/ SetDataLen
    \/ SetData
    \/ SetDataByte
    \/ SetDataByteWithChecksum
    \/ AsBytes
    \/ TryFrom

Spec == Init /\ [][Next]_vars

\* ------------------------------------------------- the transport adapter
\* Device::send up to the transport write: the report id, then the frame.
device_send(c) ==
    LET b == as_bytes(c)
    IN  IF b.res = "ok"
        THEN [res |-> "ok", bytes |-> <<report_id>> \o b.bytes]
        ELSE [res |-> "panic", bytes |-> <<>>]

\* Device::read after the transport read filled `report`:
\* buf[1..bytes_read] panics when bytes_read = 0.
device_read(report) ==
    IF Len(report) < 1
    THEN [res |-> "panic", bytes |-> <<>>]
    ELSE [res |-> "ok", bytes |-> Tail(report)]

\* The result of parsing the response.  Device::execute maps a parse error
\* to HidApiError with the error in its message; Command::execute returns
\* the result of try_from as it is.
execute_result(e, r) ==
    IF r.res \in {"ok", "panic"}
    THEN [res |-> r.res, cause |-> ""]
    ELSE IF e = "Device"
    THEN [res |-> "HidApiError", cause |-> r.res]
    ELSE [res |-> r.res, cause |-> ""]

\* Commands handed to execute: built from the default one, or parsed.
BuiltCommands ==
    { DefaultCommand,
      set_data_len(DefaultCommand, 2).cmd,
      set_data_len(DefaultCommand, 11).cmd,
      set_data(set_data_len(DefaultCommand, 2).cmd, <<170, 187>>, 0).cmd }

ParsedCommands ==
    { try_from(raw).cmd : raw \in { x \in RawInputs : try_from(x).res = "ok" } }

\* Reports the transport read delivers, report id first.
Reports ==
    { <<>>,
      <<report_id>>,
      <<report_id>> \o MkRaw(8, 12, 0, 0, 119),
      <<report_id>> \o MkRaw(8, 6528, 2, 170, 0),
      <<report_id>> \o MkRaw(8, 12, 11, 170, 119),
      <<report_id>> \o MkRaw(0, 189, 2, 170, 0),
      <<report_id>> \o MkRaw(8, 12, 12, 0, 0),
      [i \in 1..MAX_REPORT_LENGTH |-> 0] }

WireCall(call, ok, bytes) == [call |-> call, ok |-> ok, bytes |-> bytes]

ExecInit ==
    /\ report_id \in ReportIds
    /\ overflow_checks \in BOOLEAN
    /\ \/ origin = "default" /\ cmd \in BuiltCommands
       \/ origin = "parsed" /\ cmd \in ParsedCommands
    /\ clean = (origin = "default")
    /\ prev = cmd
    /\ last = NoCall
    /\ frame = <<>>
    /\ nops = 0
    /\ pc = "idle"
    /\ entry = "Device"
    /\ wire = <<>>
    /\ resp = <<>>
    /\ cause = ""

\* execute, first step: serialize and write.  A failed write ends the call.
ExecSend ==
    /\ pc = "idle"
    /\ CanCall
    /\ \E e \in {"Device", "Command"}, written \in BOOLEAN :
        LET s == device_send(cmd)
        IN  /\ entry' = e
            /\ IF s.res = "panic"
               THEN /\ wire' = <<>>
                    /\ frame' = frame
                    /\ pc' = "idle"
                    /\ last' = Call("execute", "panic", 0, 0)
               ELSE /\ wire' = <<WireCall("write", written, s.bytes)>>
                    /\ frame' = Tail(s.bytes)
                    /\ pc' = IF written THEN "sent" ELSE "idle"
                    /\ last' = Call("execute",
                                    IF written THEN "pending" ELSE "HidError",
                                    0, 0)
    /\ prev' = cmd
    /\ nops' = nops + 1
    /\ resp' = <<>>
    /\ cause' = ""
    /\ UNCHANGED <<report_id, overflow_checks, cmd, origin, clean>>

\* execute, second step: read one report and strip the report id.
ExecRead ==
    /\ pc = "sent"
    /\ \/ /\ wire' = Append(wire, WireCall("read", FALSE, <<>>))
          /\ last' = Call("execute", "HidError", 0, 0)
          /\ pc' = "idle"
          /\ resp' = resp
       \/ \E report \in Reports :
            LET r == device_read(report)
            IN  /\ wire' = Append(wire, WireCall("read", TRUE, report))
                /\ resp' = r.bytes
                /\ pc' = IF r.res = "ok" THEN "read" ELSE "idle"
                /\ last' = Call("execute",
                                IF r.res = "ok" THEN "pending" ELSE "panic",
                                0, 0)
    /\ UNCHANGED <<report_id, overflow_checks, cmd, origin, clean, prev,
                   frame, nops, entry, cause>>

\* execute, last step: parse the response; the caller goes on with it.
ExecParse ==
    /\ pc = "read"
    /\ LET r == try_from(resp)
           x == execute_result(entry, r)
       IN  /\ wire' = Append(wire, WireCall("parse", r.res = "ok", resp))
           /\ last' = Call("execute", x.res, 0, 0)
           /\ cause' = x.cause
           /\ cmd' = IF r.res = "ok" THEN r.cmd ELSE cmd
           /\ origin' = IF r.res = "ok" THEN "parsed" ELSE origin
    /\ pc' = "idle"
    /\ UNCHANGED <<report_id, overflow_checks, clean, prev, frame, nops,
                   entry, resp>>

ExecNext ==
    \/ ExecSend
    \/ ExecRead
    \/ ExecParse

ExecSpec == ExecInit /\ [][ExecNext]_vars

\* ----------------------------------------------------------------- claims
\* Sum of the bytes of a sequence, by index.
RECURSIVE SumTo(_, _)
SumTo(s, n) == IF n = 0 THEN 0 ELSE s[n] + SumTo(s, n - 1)

\* report_id + command_id + status + eeprom_address + data_len + sum of data
FieldSum(c) ==
    report_id + c.command_id + c.status + c.eeprom_address + c.data_len
        + SumTo(c.data, Len(c.data))

Returned == last.res # "panic"
IsError == last.res \notin {"ok", "panic"}

\* C1: every command built from the default one, the default one included,
\* has (report_id + id + status + address + data_len + sum of data
\* + checksum) mod 256 = 0x55.
C1_ChecksumInvariant ==
    (origin = "default" /\ Returned)
        => (FieldSum(cmd) + cmd.checksum) % 256 = 85

\* C2: after a successful set_id, set_status, set_eeprom_address,
\* set_data_len, set_data or set_data_byte, from any prior state, the
\* checksum is (0x55 - (sum of the post-call fields mod 256)) mod 256 and
\* the sum fits the 16-bit accumulator.
C2_ChecksumRecomputed ==
    (/\ last.op \in {"set_id", "set_status", "set_eeprom_address",
                     "set_data_len", "set_data", "set_data_byte"}
     /\ last.res = "ok")
        => /\ FieldSum(cmd) <= 65535
           /\ cmd.checksum = (85 - (FieldSum(cmd) % 256)) % 256

\* A mutator succeeded on a parsed command whose received checksum did not
\* match its fields.
C2_Witness ==
    /\ last.op \in {"set_status", "set_data_len", "set_data_byte"}
    /\ last.res = "ok"
    /\ origin = "parsed"
    /\ prev.checksum # (85 - (FieldSum(prev) % 256)) % 256
    /\ cmd.checksum # prev.checksum

\* C3: a command built from the default one by successful mutator calls
\* serializes to a frame that parses, and the parsed command serializes to
\* the same frame.
C3_RoundTrip ==
    (origin = "default" /\ clean)
        => LET s == as_bytes(cmd)
               p == try_from(s.bytes)
           IN  /\ s.res = "ok"
               /\ p.res = "ok"
               /\ as_bytes(p.cmd).res = "ok"
               /\ as_bytes(p.cmd).bytes = s.bytes

\* C4: data_len never exceeds the payload capacity CMD_LEN - BASE_OFFSET - 1,
\* and set_data_len with a larger length returns DataTooLarge and changes
\* nothing.
C4_DataLenWithinCapacity ==
    /\ cmd.data_len <= CMD_LEN - BASE_OFFSET - 1
    /\ (last.op = "set_data_len" /\ last.val > CMD_LEN - BASE_OFFSET - 1)
          => (last.res = "DataTooLarge" /\ cmd = prev)

\* C5: a mutator call that returns an error leaves the command as it was.
C5_ErrorLeavesCommandUnchanged ==
    (/\ last.op \in {"set_data", "set_data_byte",
                     "set_data_byte_with_checksum", "set_data_len"}
     /\ IsError)
        => cmd = prev

\* C6: Parse returns InvalidBufferLength iff the length is not 16, else
\* InvalidCommandId iff byte 0 is outside 0x00..0x1B, else
\* InvalidEEPROMAddress iff bytes 2..3 are not an allowed address, else it
\* succeeds with the fields of the buffer.
C6_ParseOutcomes ==
    last.op = "try_from" =>
        LET raw == last.raw
        IN  /\ (last.res = "InvalidBufferLength") <=> (Len(raw) # 16)
            /\ Len(raw) = 16 =>
                 /\ (last.res = "InvalidCommandId") <=> (raw[1] \notin 0..27)
                 /\ raw[1] \in 0..27 =>
                      LET addr == raw[3] * 256 + raw[4]
                      IN  /\ (last.res = "InvalidEEPROMAddress")
                                <=> (addr \notin EEPROMAddresses)
                          /\ addr \in EEPROMAddresses =>
                               /\ last.res = "ok"
                               /\ cmd.command_id = raw[1]
                               /\ cmd.status = raw[2]
                               /\ cmd.eeprom_address = addr
                               /\ cmd.data_len = raw[5]
                               /\ \A i \in 1..raw[5] : cmd.data[i] = raw[5 + i]
                               /\ cmd.checksum = raw[16]

\* C7: every codec call returns, with a value or a typed error.
C7_NoAbort == last.res # "panic"

\* C8: set_data_byte(value, offset) returns InvalidOffset iff
\* offset >= data_len; otherwise it writes data[offset], changes no other
\* data byte or header field, and recomputes the checksum.
C8_SetDataByte ==
    last.op = "set_data_byte" =>
        /\ (last.res = "InvalidOffset") <=> (last.off >= prev.data_len)
        /\ last.res = "InvalidOffset" => cmd = prev
        /\ last.off < prev.data_len =>
             /\ last.res = "ok"
             /\ cmd = [prev EXCEPT !.data[last.off + 1] = last.val,
                                   !.checksum = cmd.checksum]
             /\ (FieldSum(cmd) + cmd.checksum) % 256 = 85

\* C9: for an even offset with offset + 1 < data_len,
\* set_data_byte_with_checksum(v, offset) succeeds, data[offset] = v and
\* data[offset] + data[offset + 1] = 0x55 mod 256.
C9_PairedWrite ==
    (/\ last.op = "set_data_byte_with_checksum"
     /\ last.off % 2 = 0
     /\ last.off + 1 < prev.data_len)
        => /\ last.res = "ok"
           /\ cmd.data[last.off + 1] = last.val
           /\ (cmd.data[last.off + 1] + cmd.data[last.off + 2]) % 256 = 85

\* C10: serialize emits 16 bytes: command_id, status, address high byte,
\* address low byte, data_len, the data, zeros from frame index
\* BASE_OFFSET + data_len to 14, and the checksum at index 15.
C10_SerializeLayout ==
    Returned =>
        LET s == as_bytes(cmd)
        IN  /\ s.res = "ok"
            /\ Len(s.bytes) = 16
            /\ s.bytes[1] = cmd.command_id
            /\ s.bytes[2] = cmd.status
            /\ s.bytes[3] * 256 + s.bytes[4] = cmd.eeprom_address
            /\ s.bytes[5] = cmd.data_len
            /\ \A i \in 1..Len(cmd.data) : s.bytes[5 + i] = cmd.data[i]
            /\ s.bytes[16] = cmd.checksum
            /\ \A i \in (BASE_OFFSET + cmd.data_len)..(CMD_LEN - 2) :
                    s.bytes[i + 1] = 0

\* C11: set_data(slice, offset) returns InvalidDataLength iff
\* offset + len(slice) > data_len; otherwise the serialized frame carries
\* the slice from frame index BASE_OFFSET + offset, every other byte but the
\* checksum is as before, and the checksum byte is the recomputed one.
C11_SetData ==
    last.op = "set_data" =>
        LET n == Len(last.slice)
            f == as_bytes(cmd)
            g == as_bytes(prev)
        IN  /\ (last.res = "InvalidDataLength")
                  <=> (last.off + n > prev.data_len)
            /\ last.off + n <= prev.data_len =>
                 /\ last.res = "ok"
                 /\ f.res = "ok"
                 /\ g.res = "ok"
                 /\ \A i \in 1..n :
                        f.bytes[BASE_OFFSET + last.off + i] = last.slice[i]
                 /\ \A j \in 1..(CMD_LEN - 1) :
                        (j <= BASE_OFFSET + last.off
                            \/ j > BASE_OFFSET + last.off + n)
                        => f.bytes[j] = g.bytes[j]
                 /\ f.bytes[CMD_LEN] = (85 - (FieldSum(cmd) % 256)) % 256

\* C13: the data buffer holds at least data_len bytes.
C13_BufferCoversDataLen ==
    Returned => Len(cmd.data) >= cmd.data_len

\* C12: an execute makes exactly one transport write, of the report id
\* followed by the 16 frame bytes of its command, then at most one read,
\* then parses what was read without its first byte.  A failed write is
\* returned with no read, a failed read is returned with no parse, and a
\* parse failure is returned as an error wrapping the parse error.  Nothing
\* of an earlier execute enters the exchange.
C12_ExecuteExchange ==
    last.op = "execute" =>
        /\ Len(wire) \in 1..3
        /\ wire[1].call = "write"
        /\ Len(wire[1].bytes) = 1 + CMD_LEN
        /\ wire[1].bytes[1] = report_id
        /\ wire[1].bytes[2] = prev.command_id
        /\ wire[1].bytes[3] = prev.status
        /\ wire[1].bytes[4] * 256 + wire[1].bytes[5] = prev.eeprom_address
        /\ wire[1].bytes[6] = prev.data_len
        /\ \A i \in 1..Len(prev.data) : wire[1].bytes[6 + i] = prev.data[i]
        /\ wire[1].bytes[1 + CMD_LEN] = prev.checksum
        /\ Len(wire) >= 2 => (wire[1].ok /\ wire[2].call = "read")
        /\ Len(wire) >= 3 =>
             /\ wire[2].ok
             /\ wire[3].call = "parse"
             /\ wire[3].bytes = SubSeq(wire[2].bytes, 2, Len(wire[2].bytes))
        /\ pc = "idle" =>
             /\ ~wire[1].ok => (Len(wire) = 1 /\ last.res = "HidError")
             /\ wire[1].ok => Len(wire) >= 2
             /\ (Len(wire) >= 2 /\ ~wire[2].ok)
                    => (Len(wire) = 2 /\ last.res = "HidError")
             /\ (Len(wire) >= 2 /\ wire[2].ok) => Len(wire) = 3
             /\ (Len(wire) = 3 /\ wire[3].ok) => (last.res = "ok" /\ cause = "")
             /\ (Len(wire) = 3 /\ ~wire[3].ok)
                    => /\ last.res \in {"HidApiError", "ParseError"}
                       /\ cause \in {"InvalidBufferLength", "InvalidCommandId",
                                     "InvalidEEPROMAddress"}

====
